---------------------------- MODULE Spec2Model ----------------------------
(***************************************************************************)
(* IronGantry: the validator (validate.py), the lifecycle engine           *)
(* (engine.py) and the CLI boundary (cli.py).                              *)
(*                                                                         *)
(* A Python str is a sequence of one-character strings.  A value read from *)
(* the manifest is a record [t, s, l]: t is its type ("str", "int", "list" *)
(* or "missing" for an absent key), s the characters of a str, l the       *)
(* elements of a list.                                                     *)
(***************************************************************************)
EXTENDS Integers, Sequences, FiniteSets, TLC

VARIABLES
    manifest,   \* the IronGantryfile on disk: [state, cfg]
    env,        \* the .irongantry_env directory
    tree,       \* the project's files, as paths relative to the project root
    archive,    \* the entries of the archive written by the last ship
    calls,      \* the collaborator calls made by the last command, in order
    lastOp,     \* the last CLI command
    lastArg,    \* its argument (init's name)
    raised,     \* the exception the engine operation raised, or "none"
    cli,        \* how cli.main ended: [status, code]
    procExit,   \* the exit status of the subprocess the last command waited for
    preEnv,     \* the environment directory as the last build found it
    input,      \* the string handed to a validator
    output      \* what the validator did with it

vars == <<manifest, env, tree, archive, calls, lastOp, lastArg, raised, cli,
          procExit, preEnv, input, output>>

-----------------------------------------------------------------------------
(* Characters *)

NL == "\n"
TAB == "\t"
CR == "\r"
FF == "\f"
SP == " "
\* the grave accent (U+0060), which a TLA+ string cannot hold
BACKTICK == "GRAVE"

Lower == {"a","b","c","d","e","f","g","h","i","j","k","l","m",
          "n","o","p","q","r","s","t","u","v","w","x","y","z"}
Upper == {"A","B","C","D","E","F","G","H","I","J","K","L","M",
          "N","O","P","Q","R","S","T","U","V","W","X","Y","Z"}
Digit == {"0","1","2","3","4","5","6","7","8","9"}

\* [A-Za-z0-9]
Alnum == Lower \cup Upper \cup Digit
\* [A-Za-z0-9._-]
NameChar == Alnum \cup {".", "_", "-"}
\* [A-Za-z0-9_-]
ProjectChar == Alnum \cup {"_", "-"}
\* [!<>=~]
Comparator == {"!", "<", ">", "=", "~"}

\* what str.strip() and str.split() treat as whitespace (the ASCII part)
PyWhitespace == {SP, TAB, NL, CR, FF}
\* shlex.shlex.whitespace
ShlexWhitespace == {SP, TAB, CR, NL}
ShlexQuotes == {"'", "\""}
ShlexEscape == {"\\"}
ShlexEscapedQuotes == {"\""}

-----------------------------------------------------------------------------
(* Python str operations *)

SubStr(s, a, b) == IF a > b THEN <<>> ELSE SubSeq(s, a, b)

RECURSIVE LStrip(_)
LStrip(s) == IF s # <<>> /\ Head(s) \in PyWhitespace THEN LStrip(Tail(s)) ELSE s

RECURSIVE RStrip(_)
RStrip(s) ==
    IF s # <<>> /\ s[Len(s)] \in PyWhitespace
    THEN RStrip(SubStr(s, 1, Len(s) - 1)) ELSE s

\* str.strip()
Strip(s) == RStrip(LStrip(s))

\* str.split()[0] of a string that is not all whitespace
RECURSIVE TakeWord(_)
TakeWord(s) ==
    IF s = <<>> \/ Head(s) \in PyWhitespace THEN <<>>
    ELSE <<Head(s)>> \o TakeWord(Tail(s))

FirstToken(s) == TakeWord(LStrip(s))

StartsWith(s, p) == Len(s) >= Len(p) /\ SubStr(s, 1, Len(p)) = p
EndsWith(s, p) == Len(s) >= Len(p) /\ SubStr(s, Len(s) - Len(p) + 1, Len(s)) = p

AllIn(s, C) == \A i \in 1..Len(s) : s[i] \in C

\* the regex '$' without re.MULTILINE, tried at position i (1-based, the next
\* character to read): the end of the string, or just before a final newline
AtDollar(s, i) == i = Len(s) + 1 \/ (i = Len(s) /\ s[i] = NL)

-----------------------------------------------------------------------------
(* Values and results *)

Str(s) == [t |-> "str", s |-> s, l |-> <<>>]
IntVal == [t |-> "int", s |-> <<>>, l |-> <<>>]
List(xs) == [t |-> "list", s |-> <<>>, l |-> xs]
Missing == [t |-> "missing", s |-> <<>>, l |-> <<>>]

Ok(v) == [ok |-> TRUE, val |-> v, err |-> "none"]
Err(e) == [ok |-> FALSE, val |-> <<>>, err |-> e]

-----------------------------------------------------------------------------
(* validate.py *)

\* _PROJECT_NAME_RE.match: ^[A-Za-z0-9_-]+$
ProjectNameMatch(s) ==
    \E i \in 2..(Len(s) + 1) :
        /\ AllIn(SubStr(s, 1, i - 1), ProjectChar)
        /\ AtDollar(s, i)

validate_project_name(name) ==
    IF name.t # "str" \/ name.s = <<>> THEN Err("ValueError")
    ELSE IF ~ProjectNameMatch(name.s) THEN Err("ValueError")
    ELSE Ok(name.s)

\* _PKG_NAME_RE, group 1: [A-Za-z0-9]([A-Za-z0-9._-]*[A-Za-z0-9])?
PkgNamePart(s) ==
    /\ s # <<>>
    /\ s[1] \in Alnum
    /\ s[Len(s)] \in Alnum
    /\ AllIn(s, NameChar)

\* [A-Za-z0-9._-]+(,[A-Za-z0-9._-]+)*
ExtrasList(s) ==
    /\ s # <<>>
    /\ AllIn(s, NameChar \cup {","})
    /\ s[1] # ","
    /\ s[Len(s)] # ","
    /\ \A i \in 1..(Len(s) - 1) : ~(s[i] = "," /\ s[i + 1] = ",")

\* _PKG_NAME_RE, group 3: (\[ ... \])?
PkgExtrasPart(s) ==
    \/ s = <<>>
    \/ /\ Len(s) >= 3
       /\ s[1] = "["
       /\ s[Len(s)] = "]"
       /\ ExtrasList(SubStr(s, 2, Len(s) - 1))

\* _PKG_NAME_RE, group 6: ([!<>=~].+)?   ('.' is any character but a newline)
PkgVersionPart(s) ==
    \/ s = <<>>
    \/ /\ Len(s) >= 2
       /\ s[1] \in Comparator
       /\ \A i \in 2..Len(s) : s[i] # NL

\* _PKG_NAME_RE.match
PkgNameMatch(s) ==
    \E i \in 1..Len(s) : \E j \in i..Len(s) : \E k \in (j + 1)..(Len(s) + 1) :
        /\ PkgNamePart(SubStr(s, 1, i))
        /\ PkgExtrasPart(SubStr(s, i + 1, j))
        /\ PkgVersionPart(SubStr(s, j + 1, k - 1))
        /\ AtDollar(s, k)

validate_package(pkg) ==
    IF pkg.t # "str" \/ Strip(pkg.s) = <<>> THEN Err("ValueError")
    ELSE IF ~PkgNameMatch(Strip(pkg.s)) THEN Err("ValueError")
    ELSE Ok(Strip(pkg.s))

S_python == <<"p","y","t","h","o","n">>
S_python3 == <<"p","y","t","h","o","n","3">>

validate_entrypoint(entry) ==
    IF entry.t # "str" \/ Strip(entry.s) = <<>> THEN Err("ValueError")
    ELSE IF FirstToken(Strip(entry.s)) \notin {S_python, S_python3}
         THEN Err("ValueError")
    ELSE Ok(Strip(entry.s))

\* _PYTHON_VERSION_RE.match: ^\d+\.\d+$
PythonVersionMatch(s) ==
    \E i \in 1..Len(s) : \E k \in (i + 3)..(Len(s) + 1) :
        /\ AllIn(SubStr(s, 1, i), Digit)
        /\ s[i + 1] = "."
        /\ AllIn(SubStr(s, i + 2, k - 1), Digit)
        /\ AtDollar(s, k)

validate_python_version(ver) ==
    IF ver.t # "str" \/ Strip(ver.s) = <<>> THEN Err("ValueError")
    ELSE IF ~PythonVersionMatch(Strip(ver.s)) THEN Err("ValueError")
    ELSE Ok(Strip(ver.s))

-----------------------------------------------------------------------------
(* shlex.split(entry), as engine.run calls it: POSIX mode, whitespace_split, *)
(* no comment characters.  st is the lexer's state: " " between tokens,    *)
(* "a" inside a word, a quote character inside quotes, the escape          *)
(* character after a backslash; esc is the state to return to after an     *)
(* escaped character.                                                      *)

RECURSIVE ShlexRun(_, _, _, _, _, _)
ShlexRun(s, i, st, esc, tok, out) ==
    IF i > Len(s) THEN
        IF st \in ShlexQuotes THEN Err("ValueError")        \* No closing quotation
        ELSE IF st \in ShlexEscape THEN Err("ValueError")   \* No escaped character
        ELSE IF st = "a" THEN Ok(Append(out, tok))
        ELSE Ok(out)
    ELSE LET c == s[i] IN
        IF st = " " THEN
            IF c \in ShlexWhitespace THEN ShlexRun(s, i + 1, " ", esc, tok, out)
            ELSE IF c \in ShlexEscape THEN ShlexRun(s, i + 1, c, "a", tok, out)
            ELSE IF c \in ShlexQuotes THEN ShlexRun(s, i + 1, c, esc, tok, out)
            ELSE ShlexRun(s, i + 1, "a", esc, <<c>>, out)
        ELSE IF st \in ShlexQuotes THEN
            IF c = st THEN ShlexRun(s, i + 1, "a", esc, tok, out)
            ELSE IF c \in ShlexEscape /\ st \in ShlexEscapedQuotes
                 THEN ShlexRun(s, i + 1, c, st, tok, out)
            ELSE ShlexRun(s, i + 1, st, esc, Append(tok, c), out)
        ELSE IF st \in ShlexEscape THEN
            IF esc \in ShlexQuotes /\ c # st /\ c # esc
            THEN ShlexRun(s, i + 1, esc, esc, tok \o <<st, c>>, out)
            ELSE ShlexRun(s, i + 1, esc, esc, Append(tok, c), out)
        ELSE \* st = "a"
            IF c \in ShlexWhitespace
            THEN ShlexRun(s, i + 1, " ", " ", <<>>, Append(out, tok))
            ELSE IF c \in ShlexQuotes THEN ShlexRun(s, i + 1, c, esc, tok, out)
            ELSE IF c \in ShlexEscape THEN ShlexRun(s, i + 1, c, "a", tok, out)
            ELSE ShlexRun(s, i + 1, "a", esc, Append(tok, c), out)

shlex_split(s) == ShlexRun(s, 1, " ", " ", <<>>, <<>>)

-----------------------------------------------------------------------------
(* validate_manifest.  A parsed manifest (tomllib.load's dict) is a function *)
(* from Keys to values; a key the file does not hold maps to Missing.       *)

_ALLOWED_MANIFEST_KEYS == {"project", "python", "packages", "entrypoint"}
\* "hooks" stands for any key outside the allowed set
Keys == _ALLOWED_MANIFEST_KEYS \cup {"hooks"}

ConfigKeys(config) == {k \in Keys : config[k].t # "missing"}

EmptyConfig == [k \in Keys |-> Missing]

CfgOk(config) == [ok |-> TRUE, cfg |-> config, err |-> "none"]
CfgErr(e) == [ok |-> FALSE, cfg |-> EmptyConfig, err |-> e]

\* [validate_package(p) for p in pkgs]
ValidatedPackages(pkgs) == [i \in 1..Len(pkgs) |-> validate_package(pkgs[i])]

\* validate_manifest without its check of unknown keys
validate_manifest_unknown_keys_allowed(config) ==
    IF "project" \notin ConfigKeys(config) THEN CfgErr("ValueError")
    ELSE IF ~validate_project_name(config["project"]).ok THEN CfgErr("ValueError")
    ELSE IF "entrypoint" \notin ConfigKeys(config) THEN CfgErr("ValueError")
    ELSE IF ~validate_entrypoint(config["entrypoint"]).ok THEN CfgErr("ValueError")
    ELSE IF "python" \in ConfigKeys(config)
            /\ ~validate_python_version(config["python"]).ok
         THEN CfgErr("ValueError")
    ELSE IF "packages" \in ConfigKeys(config) /\ config["packages"].t # "list"
         THEN CfgErr("ValueError")
    ELSE IF "packages" \in ConfigKeys(config)
            /\ \E i \in 1..Len(config["packages"].l) :
                   ~ValidatedPackages(config["packages"].l)[i].ok
         THEN CfgErr("ValueError")
    ELSE CfgOk([k \in Keys |->
            IF k = "entrypoint" THEN Str(validate_entrypoint(config[k]).val)
            ELSE IF k = "python" /\ k \in ConfigKeys(config)
                 THEN Str(validate_python_version(config[k]).val)
            ELSE IF k = "packages" /\ k \in ConfigKeys(config)
                 THEN List([i \in 1..Len(config[k].l) |->
                            Str(ValidatedPackages(config[k].l)[i].val)])
            ELSE config[k]])

validate_manifest(config) ==
    IF ConfigKeys(config) \ _ALLOWED_MANIFEST_KEYS # {} THEN CfgErr("ValueError")
    ELSE IF "project" \notin ConfigKeys(config) THEN CfgErr("ValueError")
    ELSE IF ~validate_project_name(config["project"]).ok THEN CfgErr("ValueError")
    ELSE IF "entrypoint" \notin ConfigKeys(config) THEN CfgErr("ValueError")
    ELSE IF ~validate_entrypoint(config["entrypoint"]).ok THEN CfgErr("ValueError")
    ELSE IF "python" \in ConfigKeys(config)
            /\ ~validate_python_version(config["python"]).ok
         THEN CfgErr("ValueError")
    ELSE IF "packages" \in ConfigKeys(config) /\ config["packages"].t # "list"
         THEN CfgErr("ValueError")
    ELSE IF "packages" \in ConfigKeys(config)
            /\ \E i \in 1..Len(config["packages"].l) :
                   ~ValidatedPackages(config["packages"].l)[i].ok
         THEN CfgErr("ValueError")
    ELSE CfgOk([k \in Keys |->
            IF k = "entrypoint" THEN Str(validate_entrypoint(config[k]).val)
            ELSE IF k = "python" /\ k \in ConfigKeys(config)
                 THEN Str(validate_python_version(config[k]).val)
            ELSE IF k = "packages" /\ k \in ConfigKeys(config)
                 THEN List([i \in 1..Len(config[k].l) |->
                            Str(ValidatedPackages(config[k].l)[i].val)])
            ELSE config[k]])

-----------------------------------------------------------------------------
(* engine.py: names, paths and the manifest on disk *)

MANIFEST == <<"I","r","o","n","G","a","n","t","r","y","f","i","l","e">>
ENV_DIR == <<".","i","r","o","n","g","a","n","t","r","y","_","e","n","v">>
S_pycache == <<"_","_","p","y","c","a","c","h","e","_","_">>
S_pyc == <<".","p","y","c">>
S_pyo == <<".","p","y","o">>
S_shipped_zip == <<"_","s","h","i","p","p","e","d",".","z","i","p">>
S_install == <<"i","n","s","t","a","l","l">>
S_dashdash == <<"-","-">>
S_bin == <<"b","i","n">>
S_pip == <<"p","i","p">>
S_main_py_cmd == <<"p","y","t","h","o","n"," ","m","a","i","n",".","p","y">>
S_bootstrap_py == <<"b","o","o","t","s","t","r","a","p",".","p","y">>
S_irongantry == <<"i","r","o","n","g","a","n","t","r","y">>
S_irongantry_py == <<"i","r","o","n","g","a","n","t","r","y",".","p","y">>
S_init_py == <<"_","_","i","n","i","t","_","_",".","p","y">>
S_validate_py == <<"v","a","l","i","d","a","t","e",".","p","y">>
S_engine_py == <<"e","n","g","i","n","e",".","p","y">>
S_cli_py == <<"c","l","i",".","p","y">>
\* the running interpreter's major.minor, and the working directory
PY_VERSION == <<"3",".","1","1">>
CWD == <<"/","w">>

\* os.path.join of a directory and a relative name (POSIX)
Join(a, b) == a \o <<"/">> \o b

\* _bin_dir, _pip_path, _python_path with os.name # "nt"
_bin_dir == S_bin
_pip_path == Join(Join(Join(CWD, ENV_DIR), _bin_dir), S_pip)
_python_path == Join(Join(Join(CWD, ENV_DIR), _bin_dir), S_python)

AbsentManifest == [state |-> "absent", cfg |-> EmptyConfig]
\* a file tomllib cannot parse (tomllib.TOMLDecodeError is a ValueError)
GarbageManifest == [state |-> "garbage", cfg |-> EmptyConfig]
Toml(config) == [state |-> "toml", cfg |-> config]

\* what tomllib.load reads back from the text engine.init writes: the name is
\* pasted between double quotes, and a basic TOML string cannot hold a raw
\* newline
WrittenManifest(name) ==
    IF \E i \in 1..Len(name) : name[i] \in {NL, "\"", "\\"} THEN GarbageManifest
    ELSE Toml([k \in Keys |->
            CASE k = "project" -> Str(name)
              [] k = "python" -> Str(PY_VERSION)
              [] k = "packages" -> List(<<>>)
              [] k = "entrypoint" -> Str(S_main_py_cmd)
              [] OTHER -> Missing])

_load_manifest(m) ==
    IF m.state = "absent" THEN CfgErr("FileNotFoundError")
    ELSE IF m.state = "garbage" THEN CfgErr("ValueError")
    ELSE validate_manifest(m.cfg)

-----------------------------------------------------------------------------
(* The environment directory and the collaborators *)

AbsentEnv ==
    [kind |-> "absent", python |-> FALSE, pip |-> FALSE, stale |-> FALSE,
     installed |-> <<>>]

Call(fn, argv) == [fn |-> fn, argv |-> argv]

\* build without the rmtree: the new environment is laid over the old one
clean_env_skipped(e) == e

\* build: if os.path.isdir(self.env_dir): shutil.rmtree(self.env_dir)
clean_env(e) == IF e.kind = "dir" THEN AbsentEnv ELSE e
clean_calls(e) == IF e.kind = "dir" THEN <<Call("rmtree", <<ENV_DIR>>)>> ELSE <<>>

\* venv.create(env_dir, with_pip=True): the interpreter and pip are put in
\* place; whatever else the directory holds is left there (clear=False)
venv_create(e) == [e EXCEPT !.kind = "dir", !.python = TRUE, !.pip = TRUE]

\* the installer, when it exits 0, has installed its arguments in the environment
pip_install(e, packages) == [e EXCEPT !.installed = Append(@, packages)]

\* config.get("packages", [])
PackagesOf(config) ==
    IF config["packages"].t = "list"
    THEN [i \in 1..Len(config["packages"].l) |-> config["packages"].l[i].s]
    ELSE <<>>

\* the command without the "--" separator
install_cmd_no_separator(packages) == <<_pip_path, S_install>> \o packages

\* cmd = [pip, "install", "--"] + packages
install_cmd(packages) == <<_pip_path, S_install, S_dashdash>> \o packages

\* run: tokens = shlex.split(entry); tokens[0] = abs_python
run_argv(entry) ==
    LET tokens == shlex_split(entry) IN
    IF ~tokens.ok THEN tokens
    ELSE Ok([i \in 1..Len(tokens.val) |->
                IF i = 1 THEN _python_path ELSE tokens.val[i]])

\* cli.main: except (FileNotFoundError, FileExistsError, ValueError): sys.exit(1).
\* Any other exception leaves main uncaught (the interpreter then prints a
\* traceback and exits 1); a command that returns falls off the end of main.
cli_main(exc) ==
    IF exc = "none" THEN [status |-> "returned", code |-> 0]
    ELSE IF exc \in {"FileNotFoundError", "FileExistsError", "ValueError"}
         THEN [status |-> "sys.exit", code |-> 1]
    ELSE [status |-> "uncaught", code |-> 1]

-----------------------------------------------------------------------------
(* engine.ship: the walk of the project tree.  A path is a sequence of     *)
(* names; the files on disk are a set of paths relative to the project     *)
(* root, and a directory exists where a file lies below it.                *)

DOT == <<".">>

\* the files of the environment directory
EnvFiles(e) ==
    IF e.kind # "dir" THEN {}
    ELSE (IF e.python THEN {<<ENV_DIR, _bin_dir, S_python>>} ELSE {})
         \cup (IF e.pip THEN {<<ENV_DIR, _bin_dir, S_pip>>} ELSE {})
         \cup (IF e.stale THEN {<<ENV_DIR, <<"o","l","d">>>>} ELSE {})
         \cup UNION {{<<ENV_DIR, <<"l","i","b">>, e.installed[i][j]>> :
                        j \in 1..Len(e.installed[i])} : i \in DOMAIN e.installed}

\* everything below the project root
DiskFiles(t, m, e) ==
    t \cup (IF m.state = "absent" THEN {} ELSE {<<MANIFEST>>}) \cup EnvFiles(e)

\* os.path.normpath of a relative path: the "." components go
normpath(p) == SelectSeq(p, LAMBDA c : c # DOT)

\* os.walk's files and dirs of the directory root (a path that starts at "."),
\* fs being the files below it
FilesAt(fs, root) == {p[Len(root)] : p \in {q \in fs : Len(q) = Len(root)}}
DirsAt(fs, root) == {p[Len(root)] : p \in {q \in fs : Len(q) > Len(root)}}
FilesBelow(fs, root, d) == {q \in fs : Len(q) > Len(root) /\ q[Len(root)] = d}

exclude_dirs == {ENV_DIR, S_pycache}
exclude_suffixes == {S_pyc, S_pyo}

\* the pruning without the hidden-directory test
KeepDir_hidden_kept(d) == d \notin {ENV_DIR, S_pycache}

\* dirs[:] = [d for d in dirs if d not in exclude_dirs and not d.startswith(".")]
KeepDir(d) == d \notin exclude_dirs /\ ~StartsWith(d, <<".">>)

\* the two 'continue's of the file loop
KeepFile(f) ==
    /\ \A suf \in exclude_suffixes : ~EndsWith(f, suf)
    /\ ~EndsWith(f, S_shipped_zip)

RECURSIVE Walk(_, _)
Walk(fs, root) ==
    {normpath(Append(root, f)) : f \in {g \in FilesAt(fs, root) : KeepFile(g)}}
    \cup UNION {Walk(FilesBelow(fs, root, d), Append(root, d)) :
                   d \in {x \in DirsAt(fs, root) : KeepDir(x)}}

Entry(name, from) == [name |-> name, from |-> from]

\* bundle_files, each written when os.path.isfile(src_path): the engine is
\* installed as the repository lays it out, so all five exist
BundleEntries ==
    {Entry(<<S_irongantry, f>>, "engine") : f \in {S_init_py, S_validate_py, S_engine_py, S_cli_py}}
    \cup {Entry(<<S_irongantry_py>>, "engine")}

-----------------------------------------------------------------------------
(* engine.py: the four commands, as functions of the disk they find *)

NoProc == [started |-> FALSE, code |-> 0]
Proc(code) == [started |-> TRUE, code |-> code]

\* init without the os.path.exists check: an existing manifest is overwritten
init_overwriting(m, name) ==
    IF ~validate_project_name(Str(name)).ok
    THEN [raised |-> "ValueError", manifest |-> m]
    ELSE [raised |-> "none", manifest |-> WrittenManifest(name)]

init(m, name) ==
    LET n == validate_project_name(Str(name)) IN
    IF ~n.ok THEN [raised |-> n.err, manifest |-> m]
    ELSE IF m.state # "absent" THEN [raised |-> "FileExistsError", manifest |-> m]
    ELSE [raised |-> "none", manifest |-> WrittenManifest(n.val)]

build(m, e, code) ==
    LET config == _load_manifest(m)
        packages == PackagesOf(config.cfg)
        created == venv_create(clean_env(e))
        made == Append(clean_calls(e), Call("venv.create", <<ENV_DIR>>))
    IN  IF ~config.ok
        THEN [raised |-> config.err, env |-> e, calls |-> <<>>, proc |-> NoProc]
        ELSE IF packages = <<>>
        THEN [raised |-> "none", env |-> created, calls |-> made, proc |-> NoProc]
        ELSE [raised |-> IF code = 0 THEN "none" ELSE "CalledProcessError",
              env |-> IF code = 0 THEN pip_install(created, packages) ELSE created,
              calls |-> Append(made, Call("pip", install_cmd(packages))),
              proc |-> Proc(code)]

run(m, e, code) ==
    LET config == _load_manifest(m)
        tokens == run_argv(config.cfg["entrypoint"].s)
    IN  IF ~config.ok
        THEN [raised |-> config.err, calls |-> <<>>, proc |-> NoProc]
        ELSE IF ~(e.kind = "dir" /\ e.python)
        THEN [raised |-> "FileNotFoundError", calls |-> <<>>, proc |-> NoProc]
        ELSE IF ~tokens.ok
        THEN [raised |-> tokens.err, calls |-> <<>>, proc |-> NoProc]
        ELSE [raised |-> "none", calls |-> <<Call("exec", tokens.val)>>,
              proc |-> Proc(code)]

ship(m, e, t) ==
    LET config == _load_manifest(m)
        filename == config.cfg["project"].s \o S_shipped_zip
        opened == t \cup {<<filename>>}
    IN  IF ~config.ok
        THEN [raised |-> config.err, tree |-> t, archive |-> {}, calls |-> <<>>]
        ELSE [raised |-> "none", tree |-> opened,
              archive |-> {Entry(p, "project") : p \in Walk(DiskFiles(opened, m, e), <<DOT>>)}
                          \cup BundleEntries
                          \cup {Entry(<<S_bootstrap_py>>, "bootstrap")},
              calls |-> <<Call("zip", <<filename>>)>>]

-----------------------------------------------------------------------------
(* The lifecycle: CLI commands interleaved with manual edits of the project *)

\* how many fields of the declared manifest a manual edit changes at once
MaxEditedFields == 2

S_app == <<"a","p","p">>
S_main_py == <<"m","a","i","n",".","p","y">>

\* names handed to `irongantry init`
InitNames ==
    {S_app, <<"a"," ","b">>, <<"a","p","p",NL>>, <<>>}

DeclaredConfig == WrittenManifest(S_app).cfg

\* values a manual edit may give each key
FieldSamples ==
    [k \in Keys |->
        CASE k = "project" ->
                {Missing, IntVal, Str(<<"a",";","b">>), Str(<<"x",NL>>)}
          [] k = "entrypoint" ->
                {Missing, Str(<<"s","h"," ","x">>),
                 Str(<<SP,"p","y","t","h","o","n","3",SP,"'","a",SP,"b","'",SP>>),
                 Str(<<"p","y","t","h","o","n",SP,"'","x">>)}
          [] k = "python" -> {Missing, Str(<<"3">>)}
          [] k = "packages" ->
                {Missing, Str(<<"a">>), List(<<IntVal>>),
                 List(<<Str(<<"a">>)>>),
                 List(<<Str(<<SP,"b",SP>>), Str(<<"a","[","x","]",">","=","1">>)>>),
                 List(<<Str(<<"a">>), Str(<<"-","r">>)>>)}
          [] OTHER -> {Str(<<"x">>)}]

Edited(config) == {k \in Keys : config[k] # DeclaredConfig[k]}

\* a manual edit sets one key, deletes the file, or replaces it: by something
\* tomllib cannot parse, or by the declared manifest again
ManifestEdits(m) ==
    {AbsentManifest, GarbageManifest, Toml(DeclaredConfig)}
    \cup (IF m.state # "toml" THEN {}
          ELSE {Toml(c) : c \in
                  {d \in UNION {{[m.cfg EXCEPT ![k] = v] :
                                    v \in FieldSamples[k] \cup {DeclaredConfig[k]}} :
                                k \in Keys} :
                     Cardinality(Edited(d)) <= MaxEditedFields}})

\* what a user may leave where the environment directory goes
EnvEdits ==
    {AbsentEnv,
     [kind |-> "dir", python |-> FALSE, pip |-> FALSE, stale |-> TRUE, installed |-> <<>>],
     [kind |-> "dir", python |-> TRUE, pip |-> FALSE, stale |-> TRUE, installed |-> <<>>]}

InstallerExits == {0, 1}
EntrypointExits == {0, 3}

NoOutput == [applied |-> FALSE, res |-> Err("none")]

Init ==
    /\ manifest = AbsentManifest
    /\ env = AbsentEnv
    /\ tree = {<<S_main_py>>}
    /\ archive = {}
    /\ calls = <<>>
    /\ lastOp = "none"
    /\ lastArg = <<>>
    /\ raised = "none"
    /\ cli = cli_main("none")
    /\ procExit = NoProc
    /\ preEnv = AbsentEnv
    /\ input = <<>>
    /\ output = NoOutput

\* `irongantry init NAME`
CmdInit ==
    \E name \in InitNames :
        LET r == init(manifest, name) IN
        /\ manifest' = r.manifest
        /\ raised' = r.raised
        /\ cli' = cli_main(r.raised)
        /\ lastOp' = "init"
        /\ lastArg' = name
        /\ calls' = <<>>
        /\ archive' = {}
        /\ procExit' = NoProc
        /\ preEnv' = AbsentEnv
        /\ UNCHANGED <<env, tree, input, output>>

\* `irongantry build`
CmdBuild ==
    \E code \in InstallerExits :
        LET r == build(manifest, env, code) IN
        /\ env' = r.env
        /\ calls' = r.calls
        /\ procExit' = r.proc
        /\ raised' = r.raised
        /\ cli' = cli_main(r.raised)
        /\ lastOp' = "build"
        /\ lastArg' = <<>>
        /\ archive' = {}
        /\ preEnv' = env
        /\ UNCHANGED <<manifest, tree, input, output>>

\* `irongantry run`
CmdRun ==
    \E code \in EntrypointExits :
        LET r == run(manifest, env, code) IN
        /\ calls' = r.calls
        /\ procExit' = r.proc
        /\ raised' = r.raised
        /\ cli' = cli_main(r.raised)
        /\ lastOp' = "run"
        /\ lastArg' = <<>>
        /\ archive' = {}
        /\ preEnv' = AbsentEnv
        /\ UNCHANGED <<manifest, env, tree, input, output>>

\* `irongantry ship`
CmdShip ==
    LET r == ship(manifest, env, tree) IN
    /\ tree' = r.tree
    /\ archive' = r.archive
    /\ calls' = r.calls
    /\ raised' = r.raised
    /\ cli' = cli_main(r.raised)
    /\ lastOp' = "ship"
    /\ lastArg' = <<>>
    /\ procExit' = NoProc
    /\ preEnv' = AbsentEnv
    /\ UNCHANGED <<manifest, env, input, output>>

\* `irongantry version`
CmdVersion ==
    /\ raised' = "none"
    /\ cli' = cli_main("none")
    /\ lastOp' = "version"
    /\ lastArg' = <<>>
    /\ calls' = <<>>
    /\ archive' = {}
    /\ procExit' = NoProc
    /\ preEnv' = AbsentEnv
    /\ UNCHANGED <<manifest, env, tree, input, output>>

Edit ==
    /\ lastOp' = "edit"
    /\ lastArg' = <<>>
    /\ raised' = "none"
    /\ cli' = cli_main("none")
    /\ calls' = <<>>
    /\ archive' = {}
    /\ procExit' = NoProc
    /\ preEnv' = AbsentEnv
    /\ UNCHANGED <<input, output>>

\* the user edits, replaces or deletes the manifest between two commands
EditManifest ==
    /\ \E m \in ManifestEdits(manifest) : manifest' = m
    /\ UNCHANGED <<env, tree>>
    /\ Edit

\* the user removes the environment directory or leaves something in its place
EditEnv ==
    /\ \E e \in EnvEdits : env' = e
    /\ UNCHANGED <<manifest, tree>>
    /\ Edit

Next ==
    \/ CmdInit
    \/ CmdBuild
    \/ CmdRun
    \/ CmdShip
    \/ CmdVersion
    \/ EditManifest
    \/ EditEnv

Spec == Init /\ [][Next]_vars

-----------------------------------------------------------------------------
(* The validators on their own: a string is typed in, then validated *)

MaxNameLen == 3
MaxPkgChunks == 4
MaxEntryChunks == 4

Idle ==
    /\ manifest = AbsentManifest
    /\ env = AbsentEnv
    /\ tree = {}
    /\ archive = {}
    /\ calls = <<>>
    /\ lastOp = "none"
    /\ lastArg = <<>>
    /\ raised = "none"
    /\ cli = cli_main("none")
    /\ procExit = NoProc
    /\ preEnv = AbsentEnv

InitInput == Idle /\ input = <<>> /\ output = NoOutput

EngineVars ==
    <<manifest, env, tree, archive, calls, lastOp, lastArg, raised, cli,
      procExit, preEnv>>

Type(chunks, max) ==
    /\ Len(input) < max
    /\ \E c \in chunks : input' = Append(input, c)
    /\ output' = NoOutput
    /\ UNCHANGED EngineVars

\* the untrusted string: the chunks typed so far, joined
RECURSIVE Concat(_)
Concat(ss) == IF ss = <<>> THEN <<>> ELSE Head(ss) \o Concat(Tail(ss))

Text == Concat(input)

NameAlphabet == {<<"a">>, <<"Z">>, <<"7">>, <<"_">>, <<"-">>, <<".">>, <<";">>, <<SP>>, <<NL>>}

TypeName == Type(NameAlphabet, MaxNameLen)

ValidateName ==
    /\ output' = [applied |-> TRUE, res |-> validate_project_name(Str(Text))]
    /\ UNCHANGED <<EngineVars, input>>

NextName == TypeName \/ ValidateName

SpecName == InitInput /\ [][NextName]_vars

PkgChunks ==
    {<<"a">>, <<"b","-","1">>, <<"[">>, <<"]">>, <<",">>, <<"[","x",",","y","]">>,
     <<">","=">>, <<"1",".","0">>, <<";">>, <<"|">>, <<BACKTICK>>, <<"$","(">>, <<SP>>}

TypePackage == Type(PkgChunks, MaxPkgChunks)

ValidatePackage ==
    /\ output' = [applied |-> TRUE, res |-> validate_package(Str(Text))]
    /\ UNCHANGED <<EngineVars, input>>

NextPkg == TypePackage \/ ValidatePackage

SpecPkg == InitInput /\ [][NextPkg]_vars

EntryChunks ==
    {S_python, S_python3, <<"3">>, <<SP>>, <<FF>>, <<TAB>>, <<"'">>, <<"\\">>,
     <<"a",".","p","y">>, <<"-","-","n","=","p","y","t","h","o","n","_","x">>}

BuiltEnv == pip_install(venv_create(AbsentEnv), <<<<"a">>>>)

TypeEntrypoint == Type(EntryChunks, MaxEntryChunks)

\* engine.run on a built project whose manifest's entrypoint is the text
RunEntrypoint ==
    /\ output' = [applied |-> TRUE,
                  res |-> run(Toml([DeclaredConfig EXCEPT !["entrypoint"] = Str(Text)]),
                              BuiltEnv, 0)]
    /\ UNCHANGED <<EngineVars, input>>

NextEntry == TypeEntrypoint \/ RunEntrypoint

SpecEntry == InitInput /\ [][NextEntry]_vars

-----------------------------------------------------------------------------
(* Export on its own: files are added to a built project, then it is shipped *)

MaxUserFiles == 1
MaxDirDepth == 2

S_git == <<".","g","i","t">>
S_src == <<"s","r","c">>
S_mod_pyc == <<"m","o","d",".","p","y","c">>
S_old_shipped_zip == <<"o","l","d","_","s","h","i","p","p","e","d",".","z","i","p">>
S_notes == <<".","n","o","t","e","s">>

DirNames == {ENV_DIR, S_pycache, S_git, S_src}
FileNames == {S_notes, S_mod_pyc, S_old_shipped_zip}

UserPaths ==
    UNION {{Append(d, f) : d \in [1..n -> DirNames], f \in FileNames} : n \in 0..MaxDirDepth}

ProjectFiles == {<<S_main_py>>}

InitShip ==
    /\ manifest = Toml(DeclaredConfig)
    /\ env = BuiltEnv
    /\ tree = ProjectFiles
    /\ archive = {}
    /\ calls = <<>>
    /\ lastOp = "none"
    /\ lastArg = <<>>
    /\ raised = "none"
    /\ cli = cli_main("none")
    /\ procExit = NoProc
    /\ preEnv = AbsentEnv
    /\ input = <<>>
    /\ output = NoOutput

\* the files the user added: not the project's first file, not the archive ship writes
UserFiles == tree \ (ProjectFiles \cup {<<S_app \o S_shipped_zip>>})

AddFile ==
    /\ Cardinality(UserFiles) < MaxUserFiles
    /\ \E p \in UserPaths : tree' = tree \cup {p}
    /\ UNCHANGED <<manifest, env>>
    /\ Edit

NextShip == AddFile \/ CmdShip

SpecShip == InitShip /\ [][NextShip]_vars

-----------------------------------------------------------------------------
(* Properties *)

PipCalls == {i \in 1..Len(calls) : calls[i].fn = "pip"}

\* the manifest's packages as the file holds them, whitespace-stripped
StrippedPackages(m) ==
    IF m.state = "toml" /\ m.cfg["packages"].t = "list"
    THEN [i \in 1..Len(m.cfg["packages"].l) |-> Strip(m.cfg["packages"].l[i].s)]
    ELSE <<>>

\* C1: after every build, the installer was called iff the manifest validated
\* and lists at least one package; it was called at most once, after
\* venv.create; its argument vector is [pip path, "install", "--"] followed by
\* the stripped packages in manifest order, each of which passes
\* validate_package.
C1_InstallerArgv ==
    lastOp = "build" =>
        /\ (PipCalls # {}) <=>
              (_load_manifest(manifest).ok /\ StrippedPackages(manifest) # <<>>)
        /\ Cardinality(PipCalls) <= 1
        /\ \A i \in PipCalls :
              /\ \E j \in 1..(i - 1) : calls[j].fn = "venv.create"
              /\ Len(calls[i].argv) >= 4
              /\ calls[i].argv[1] = _pip_path
              /\ calls[i].argv[2] = S_install
              /\ calls[i].argv[3] = S_dashdash
              /\ SubStr(calls[i].argv, 4, Len(calls[i].argv)) = StrippedPackages(manifest)
              /\ \A k \in 4..Len(calls[i].argv) :
                    validate_package(Str(calls[i].argv[k])) = Ok(calls[i].argv[k])

\* a build that installed two packages, one of them normalized by strip()
C1_Witness ==
    /\ lastOp = "build"
    /\ PipCalls # {}
    /\ Len(StrippedPackages(manifest)) >= 2
    /\ \E k \in 1..Len(manifest.cfg["packages"].l) :
          manifest.cfg["packages"].l[k].s # StrippedPackages(manifest)[k]

HasMetacharacter(s) ==
    \E i \in 1..Len(s) :
        \/ s[i] \in {";", "|", BACKTICK}
        \/ (s[i] = "$" /\ i < Len(s) /\ s[i + 1] = "(")

\* name, name[extra1,extra2] and name>=1.0: a name, then extras, then a
\* comparator and a version, each part optional but the name
VersionChar == Alnum \cup {".", "*", "+", "!", "_", "-"}
PlainSpecifier(s) ==
    \E i \in 1..Len(s) : \E j \in i..Len(s) :
        /\ PkgNamePart(SubStr(s, 1, i))
        /\ PkgExtrasPart(SubStr(s, i + 1, j))
        /\ \/ j = Len(s)
           \/ \E k \in (j + 1)..(Len(s) - 1) :
                 /\ AllIn(SubStr(s, j + 1, k), Comparator)
                 /\ AllIn(SubStr(s, k + 1, Len(s)), VersionChar)

\* C2: validate_package returns the stripped string for every specifier of the
\* form name, name[extras] or name>=version, and rejects every specifier that
\* contains ';', '|', a backtick or '$('.
C2_MetacharactersRejected ==
    output.applied =>
        /\ PlainSpecifier(Strip(Text)) => output.res = Ok(Strip(Text))
        /\ HasMetacharacter(Text) => ~output.res.ok

\* C3: validate_project_name accepts exactly the non-empty strings over
\* [A-Za-z0-9_-], and returns what it accepts unchanged.
C3_ProjectNameCharset ==
    output.applied =>
        /\ output.res.ok <=> (Text # <<>> /\ AllIn(Text, ProjectChar))
        /\ output.res.ok => output.res.val = Text

\* C4: when run starts the entrypoint, the first shell word of the validated
\* entrypoint is exactly python or python3, and the argument vector is the
\* shell words with that one replaced by the environment's interpreter.
C4_OnlyInterpreterTokenReplaced ==
    (output.applied /\ output.res.calls # <<>>) =>
        LET words == shlex_split(Strip(Text)).val
            argv == output.res.calls[1].argv
        IN  /\ words[1] \in {S_python, S_python3}
            /\ argv = <<_python_path>> \o Tail(words)

\* the manifest as the claim describes a failing one
FieldFails(config) ==
    \/ ~validate_project_name(config["project"]).ok
    \/ ~validate_entrypoint(config["entrypoint"]).ok
    \/ config["python"].t # "missing" /\ ~validate_python_version(config["python"]).ok
    \/ config["packages"].t = "list"
          /\ \E i \in 1..Len(config["packages"].l) : ~validate_package(config["packages"].l[i]).ok

FailsValidation(m) ==
    \/ m.state = "garbage"
    \/ /\ m.state = "toml"
       /\ \/ m.cfg["project"].t = "missing"
          \/ m.cfg["entrypoint"].t = "missing"
          \/ \E k \in Keys \ {"project", "python", "packages", "entrypoint"} :
                m.cfg[k].t # "missing"
          \/ m.cfg["packages"].t \notin {"missing", "list"}
          \/ FieldFails(m.cfg)

\* C5: a build, run or ship that finds the manifest absent or failing
\* validation raises FileNotFoundError / ValueError and changes nothing: not
\* the environment, not the manifest, not the project's files; it calls no
\* collaborator and writes no archive.
C5_InvalidManifestNoEffect ==
    [][(lastOp' \in {"build", "run", "ship"}
            /\ (manifest.state = "absent" \/ FailsValidation(manifest)))
        => /\ raised' = IF manifest.state = "absent"
                        THEN "FileNotFoundError" ELSE "ValueError"
           /\ cli'.status = "sys.exit"
           /\ env' = env
           /\ manifest' = manifest
           /\ tree' = tree
           /\ calls' = <<>>
           /\ archive' = {}
           /\ ~procExit'.started]_vars

\* a build refused for an unknown key alone, with the environment of an
\* earlier build still in place
C5_Witness ==
    /\ lastOp = "build"
    /\ raised = "ValueError"
    /\ manifest.state = "toml"
    /\ manifest.cfg["hooks"].t # "missing"
    /\ validate_manifest([manifest.cfg EXCEPT !["hooks"] = Missing]).ok
    /\ env.kind = "dir"
    /\ env.installed # <<>>

\* C6 as claimed: init with a manifest in place raises FileExistsError, for
\* every name, and leaves the manifest as it is.
C6_AlwaysAlreadyExists ==
    [][(lastOp' = "init" /\ manifest.state # "absent")
        => (raised' = "FileExistsError" /\ manifest' = manifest)]_vars

\* C6 amended: init with a manifest in place fails and leaves the manifest as
\* it is: with ValueError when the name fails validate_project_name, with
\* FileExistsError otherwise.  init writes the manifest only when the name
\* passes validate_project_name and no manifest exists.
C6_DeclareNeverOverwrites ==
    [][lastOp' = "init"
        => /\ manifest.state # "absent" =>
                /\ manifest' = manifest
                /\ raised' = IF validate_project_name(Str(lastArg')).ok
                             THEN "FileExistsError" ELSE "ValueError"
           /\ manifest' # manifest =>
                /\ validate_project_name(Str(lastArg')).ok
                /\ manifest.state = "absent"
                /\ raised' = "none"]_vars

\* init refused over a manifest the user has edited since it was declared
C6_Witness ==
    /\ lastOp = "init"
    /\ raised = "FileExistsError"
    /\ manifest.state = "toml"
    /\ manifest.cfg # DeclaredConfig

\* C7: when the entrypoint exits non-zero, run raises nothing and the command
\* ends with that exit status.
C7_ExitStatusForwarded ==
    (lastOp = "run" /\ procExit.started /\ procExit.code # 0) =>
        /\ raised = "none"
        /\ cli.code = procExit.code

\* C8: every exception an engine operation raises is caught by cli.main and
\* turned into a non-zero exit code; a command that raises nothing ends with
\* exit code 0.
C8_ErrorsCaughtAtCli ==
    /\ raised # "none" => (cli.status = "sys.exit" /\ cli.code # 0)
    /\ raised = "none" => cli.code = 0

\* C9: a successful build leaves the environment a function of the manifest's
\* packages alone, whatever was there before: freshly created, with the
\* packages installed by one installer call of this build and nothing else.
\* A build fails only when the manifest does not load or the installer exits
\* non-zero, never because an environment is already there.
C9_RebuildFromScratch ==
    lastOp = "build" =>
        /\ raised = "none" =>
              /\ env = [kind |-> "dir", python |-> TRUE, pip |-> TRUE, stale |-> FALSE,
                        installed |-> IF StrippedPackages(manifest) = <<>> THEN <<>>
                                      ELSE <<StrippedPackages(manifest)>>]
              /\ Cardinality(PipCalls) = Len(env.installed)
        /\ raised # "none" =>
              \/ manifest.state = "absent" \/ FailsValidation(manifest)
              \/ (raised = "CalledProcessError" /\ procExit.started /\ procExit.code # 0)

\* a second successful build in a row: the environment it found is the one it left
C9_Witness ==
    /\ lastOp = "build"
    /\ raised = "none"
    /\ preEnv = env
    /\ env.installed # <<>>
    /\ calls[1].fn = "rmtree"

ExcludedDirectory(d) == d = ENV_DIR \/ d = S_pycache \/ d[1] = "."
UnderExcludedDirectory(p) == \E i \in 1..(Len(p) - 1) : ExcludedDirectory(p[i])
ShippedArchive(p) == EndsWith(p[Len(p)], S_shipped_zip)
Bytecode(p) == EndsWith(p[Len(p)], S_pyc) \/ EndsWith(p[Len(p)], S_pyo)

\* C10: the project files of the archive are exactly the files on disk that lie
\* under no environment, hidden or cache directory at any depth, are no
\* shipped archive (the one being written included) and no compiled bytecode,
\* each under its path relative to the project root.
C10_ArchiveContents ==
    (lastOp = "ship" /\ raised = "none") =>
        {e.name : e \in {x \in archive : x.from = "project"}}
        = {p \in DiskFiles(tree, manifest, env) :
              ~UnderExcludedDirectory(p) /\ ~ShippedArchive(p) /\ ~Bytecode(p)}

\* a ship that walked past its own archive and a file inside a hidden directory
\* nested in a plain one, and kept main.py and the manifest
C10_Witness ==
    /\ lastOp = "ship"
    /\ raised = "none"
    /\ <<S_src, S_git, S_notes>> \in tree
    /\ <<S_app \o S_shipped_zip>> \in tree
    /\ Entry(<<S_main_py>>, "project") \in archive
    /\ Entry(<<MANIFEST>>, "project") \in archive

=============================================================================
